---- MODULE Spec2Model ----
(***************************************************************************)
(* A model of uwagaki.CreateEnvironment (src/uwagaki.go): the provisioning *)
(* of a temporary Go workspace in which files of selected modules are      *)
(* overridden.                                                             *)
(*                                                                         *)
(* A string that holds a path ("./internal/testpkg", "/tmp/x/go.mod",      *)
(* "golang.org/x/text") is modelled by its split on "/": a sequence of     *)
(* segments.  The empty string is <<>>, an absolute path starts with the   *)
(* empty segment "" (the root "/" is <<"">>), so the syntactic tests of    *)
(* the code (IsDirectoryPath, IsAbs) and the cleaning done by Join, Abs    *)
(* and Rel are computed on the segments as Go computes them.               *)
(***************************************************************************)
EXTENDS Naturals, Sequences, FiniteSets, TLC

(***************************************************************************)
(* Bounds of the model.                                                    *)
(***************************************************************************)
\* The longest list of entry paths (argument paths).
MaxPaths == 2
\* The longest list of override items (argument replaces).
MaxReplaces == 2
\* The most arguments (entry paths plus override items) of one call.
MaxArgs == 2
\* The most items in a call whose items repeat a file.
MaxRepeated == 3

(***************************************************************************)
(* Paths: path.Clean / filepath.Clean, Join, Dir, Abs, Rel on segments.    *)
(***************************************************************************)
IsAbs(p) == Len(p) > 0 /\ p[1] = ""

\* modfile.IsDirectoryPath: ".", "..", "./x", "../x", "/x" (and IsAbs).
IsDirectoryPath(ns) == Len(ns) > 0 /\ ns[1] \in {".", "..", ""}

Last(s) == s[Len(s)]

Front(s) == SubSeq(s, 1, Len(s) - 1)

IsPrefix(d, p) == Len(d) <= Len(p) /\ SubSeq(p, 1, Len(d)) = d

RECURSIVE CleanSegs(_, _, _)
\* Clean's loop: drop "" and ".", let ".." remove the segment before it; at
\* the root ".." is dropped, in a relative path a leading ".." is kept.
CleanSegs(segs, out, rooted) ==
    IF segs = <<>> THEN out
    ELSE LET s == Head(segs) IN
         IF s = "" \/ s = "." THEN CleanSegs(Tail(segs), out, rooted)
         ELSE IF s = ".." THEN
                 IF out # <<>> /\ Last(out) # ".." THEN CleanSegs(Tail(segs), Front(out), rooted)
                 ELSE IF rooted THEN CleanSegs(Tail(segs), out, rooted)
                 ELSE CleanSegs(Tail(segs), Append(out, ".."), rooted)
         ELSE CleanSegs(Tail(segs), Append(out, s), rooted)

Clean(p) ==
    IF p = <<>> THEN <<".">>
    ELSE IF IsAbs(p) THEN <<"">> \o CleanSegs(Tail(p), <<>>, TRUE)
    ELSE LET c == CleanSegs(p, <<>>, FALSE) IN IF c = <<>> THEN <<".">> ELSE c

\* filepath.Join / path.Join of two elements: empty elements are ignored, the
\* result is cleaned; the join of nothing is the empty string.
Join(a, b) == IF a = <<>> /\ b = <<>> THEN <<>> ELSE Clean(a \o b)

\* filepath.Dir of a cleaned path with at least one separator.
Dir(p) ==
    IF Len(p) <= 1 THEN (IF IsAbs(p) THEN <<"">> ELSE <<".">>)
    ELSE Front(p)

\* filepath.Abs: an absolute path is cleaned, a relative one is joined to the
\* working directory.
Abs(cwd, p) == IF IsAbs(p) THEN Clean(p) ELSE Join(cwd, p)

RECURSIVE CommonLen(_, _)
CommonLen(a, b) ==
    IF a = <<>> \/ b = <<>> \/ Head(a) # Head(b) THEN 0
    ELSE 1 + CommonLen(Tail(a), Tail(b))

Dots(n) == [j \in 1..n |-> ".."]

\* filepath.Rel of two cleaned absolute paths: ".." for every segment of
\* base below the common prefix, then the rest of targ; "." when equal.
Rel(basepath, targ) ==
    LET n == CommonLen(basepath, targ)
        r == Dots(Len(basepath) - n) \o SubSeq(targ, n + 1, Len(targ))
    IN  IF r = <<>> THEN <<".">> ELSE r

(***************************************************************************)
(* The world of one call: modules, their source trees on disk, the caller's *)
(* project and the values the arguments are drawn from.                     *)
(***************************************************************************)
\* Module paths: a module, a module nested below it, an unrelated one.
ModA == <<"a">>
ModAB == <<"a", "b">>
ModC == <<"c">>
Mods == {ModA, ModAB, ModC}

\* The directory os.MkdirTemp returns.
WorkDir == <<"", "w">>

\* The caller's project: module a, whose go.mod is /srcA/go.mod.
ProjectDir == <<"", "srcA">>
ProjectGoMod == <<"", "srcA", "go.mod">>

\* Where 'go list -m -f {{.Dir}}' finds a module that no replace directive
\* redirects (the module cache; the project itself for module a).
CacheDir(m) ==
    IF m = ModA THEN ProjectDir
    ELSE IF m = ModAB THEN <<"", "srcAB">>
    ELSE <<"", "srcC">>

\* The files on disk before the call, outside the workspace.
OrigFiles ==
    (<<"", "srcA", "go.mod">> :> "gomod") @@
    (<<"", "srcA", "go.sum">> :> "gosum") @@
    (<<"", "srcA", "f">> :> "a_f") @@
    (<<"", "srcA", "b", "f">> :> "a_b_f") @@
    (<<"", "srcA", ".git", "h">> :> "a_git") @@
    (<<"", "srcAB", "f">> :> "ab_f") @@
    (<<"", "srcAB", "g">> :> "ab_g") @@
    (<<"", "srcC", "f">> :> "c_f")

Prefixes(p) == {SubSeq(p, 1, n) : n \in 1..Len(p)}

OrigDirs ==
    UNION {Prefixes(Front(p)) : p \in DOMAIN OrigFiles}
    \cup {<<"", "srcA", "i">>, <<"", "home">>}

\* Working directories of the caller: the project root, a directory below it,
\* a directory that no go.mod governs.
InsideWds == {ProjectDir, <<"", "srcA", "i">>}
OutsideWd == <<"", "home">>

\* A replace directive of a go.mod: old path and version, new path and version.
Edge(old, ver, new, nver) == [old |-> old, ver |-> ver, new |-> new, nver |-> nver]

\* The replace sections the caller's go.mod may hold.
BaseReplaces ==
    { <<>>,
      << Edge(ModAB, "", <<".", "b">>, "") >>,
      << Edge(ModC, "v1", <<".", "b">>, ""), Edge(ModC, "v2", <<"", "srcC">>, "") >>,
      << Edge(ModC, "v1", ModAB, "v1"), Edge(ModC, "", <<".", "b">>, "") >>,
      << Edge(ModA, "", ProjectDir, "") >> }

\* A go.mod: the module statement, the required modules, the replace section.
GoMod(name, req, rep) == [module |-> name, require |-> req, replace |-> rep]

NoGoMod == GoMod(<<>>, {}, <<>>)

\* Entry paths: the current package, a directory beside the working
\* directory, a package of a module at a version.
EntryPaths == {<<".">>, <<"..", "sib">>, <<"c", "pkg@v1">>}

\* Paths of override items: a file, a name that is a directory of module a,
\* a file in that directory, a path that leaves the module's tree.
ItemPaths == {<<"f">>, <<"b">>, <<"b", "f">>, <<"..", "..", "..", "srcA", "f">>}

Contents == {"X", "Y"}

\* ReplaceItem.
ReplaceItem(m, p, c) == [Mod |-> m, Path |-> p, Content |-> c]

\* An item of module a whose path is the directory of the copy of module c.
CrossItem == ReplaceItem(ModA, <<"..", "c">>, "X")

ReplaceItems ==
    {ReplaceItem(m, p, c) : m \in Mods, p \in ItemPaths, c \in Contents} \cup {CrossItem}

SeqsUpTo(S, n) == UNION {[1..k -> S] : k \in 0..n}

(***************************************************************************)
(* The file system: fs maps the path of every regular file to its content, *)
(* ds is the set of directories.                                           *)
(***************************************************************************)
\* os.MkdirAll(d) succeeds unless d or a directory above it is a regular file.
MkdirAllOk(fs, d) == \A q \in Prefixes(d) : q \notin DOMAIN fs

MkdirAllDirs(ds, d) == ds \cup Prefixes(d)

DirEmpty(fs, ds, p) ==
    /\ \A q \in DOMAIN fs : ~(IsPrefix(p, q) /\ q # p)
    /\ \A q \in ds : ~(IsPrefix(p, q) /\ q # p)

\* os.Remove(p): "ok" (a file or an empty directory is removed), "notexist"
\* (an error that is os.ErrNotExist) or "error" (any other error).
RemoveResult(fs, ds, p) ==
    IF p \in DOMAIN fs THEN "ok"
    ELSE IF p \in ds THEN (IF DirEmpty(fs, ds, p) THEN "ok" ELSE "error")
    ELSE IF Dir(p) \in ds THEN "notexist"
    ELSE IF MkdirAllOk(fs, Dir(p)) THEN "notexist"
    ELSE "error"

RemoveFiles(fs, p) == [q \in DOMAIN fs \ {p} |-> fs[q]]

\* os.WriteFile(p) and os.Create(p) need the directory of p and fail on a
\* directory at p.
WriteFileOk(fs, ds, p) == Dir(p) \in ds /\ p \notin ds

WriteFiles(fs, p, c) == [q \in DOMAIN fs \cup {p} |-> IF q = p THEN c ELSE fs[q]]

\* The path of p relative to the directory src above it.
RelTo(src, p) == SubSeq(p, Len(src) + 1, Len(p))

\* The files filepath.WalkDir(src) hands to the copy: every regular file
\* below src except those below the directory whose relative path is ".git".
WalkFiles(fs, src) ==
    {p \in DOMAIN fs :
        /\ IsPrefix(src, p)
        /\ p # src
        /\ ~(Len(RelTo(src, p)) > 1 /\ RelTo(src, p)[1] = ".git")}

\* Whether the copy of the files S below src to dst meets no file where it
\* needs a directory and no directory where it creates a file.
CopyOk(fs, ds, src, dst, S) ==
    \A p \in S :
        /\ MkdirAllOk(fs, Dir(dst \o RelTo(src, p)))
        /\ (dst \o RelTo(src, p)) \notin ds

\* The file system after the files S below src are copied to dst.
CopyFiles(fs, src, dst, S) ==
    LET new == {dst \o RelTo(src, p) : p \in S}
    IN  [q \in DOMAIN fs \cup new |->
            IF q \in new
            THEN fs[CHOOSE p \in S : dst \o RelTo(src, p) = q]
            ELSE fs[q]]

CopyDirs(ds, src, dst, S) ==
    ds \cup UNION {Prefixes(Dir(dst \o RelTo(src, p))) : p \in S}

\* The storage of the files: that of a file of a tree that was on disk before
\* the call, or storage allocated by the call for a file it created at p.
TreeStorage(p) == [origin |-> "tree", path |-> p]

CallStorage(p) == [origin |-> "call", path |-> p]

\* os.WriteFile(p) and os.Create(p) open with O_CREATE|O_TRUNC: a file that
\* exists keeps its storage, a file that does not gets new storage.
CreateStorage(st, P) ==
    [q \in DOMAIN st \cup P |-> IF q \in DOMAIN st THEN st[q] ELSE CallStorage(q)]

\* os.Remove(p) unlinks the name p.
RemoveStorage(st, p) == [q \in DOMAIN st \ {p} |-> st[q]]

(***************************************************************************)
(* go.mod: the replace section and the commands that edit it.               *)
(***************************************************************************)
\* A replace directive that modfile has removed (*r = Replace{}).
ZeroEdge == Edge(<<>>, "", <<>>, "")

FirstMatch(rs, old, ver) ==
    LET M == {j \in 1..Len(rs) : rs[j].old = old /\ (ver = "" \/ rs[j].ver = ver)}
    IN  IF M = {} THEN 0 ELSE CHOOSE j \in M : \A k \in M : j <= k

\* modfile.File.AddReplace: the first directive for old (any version when ver
\* is empty) is rewritten to old ver => new nver, every other such directive
\* is removed; without one, the directive is added at the end.
AddReplace(rs, old, ver, new, nver) ==
    LET f == FirstMatch(rs, old, ver)
    IN  IF f = 0 THEN Append(rs, Edge(old, ver, new, nver))
        ELSE [j \in 1..Len(rs) |->
                IF j = f THEN Edge(old, ver, new, nver)
                ELSE IF rs[j].old = old /\ (ver = "" \/ rs[j].ver = ver) THEN ZeroEdge
                ELSE rs[j]]

IsLive(e) == e # ZeroEdge

\* modfile.File.Format: removed directives are not written.
Format(rs) == SelectSeq(rs, IsLive)

RECURSIVE FixReplacePaths(_, _, _)
\* The loop 'Fix the replace paths' of CreateEnvironment over the directives
\* of the copied go.mod, from directive j on: a directive whose target is a
\* relative directory is re-added with the target joined to dir.
FixReplacePaths(rs, j, dir) ==
    IF j > Len(rs) THEN rs
    ELSE LET r == rs[j] IN
         IF ~IsDirectoryPath(r.new) THEN FixReplacePaths(rs, j + 1, dir)
         ELSE IF IsAbs(r.new) THEN FixReplacePaths(rs, j + 1, dir)
         ELSE FixReplacePaths(AddReplace(rs, r.old, r.ver, Join(dir, r.new), r.nver), j + 1, dir)
\* A 'go mod edit -replace' that adds the directive and leaves the directives
\* the file already has for the module in place.
GoModEditReplace_Append(gm, old, new) ==
    [gm EXCEPT !.replace = Append(gm.replace, Edge(old, "", new, ""))]

\* A 'go mod edit -replace' that leaves a module that already has a directive
\* as it is.
GoModEditReplace_KeepExisting(gm, old, new) ==
    IF \E j \in 1..Len(gm.replace) : gm.replace[j].old = old THEN gm
    ELSE [gm EXCEPT !.replace = Append(gm.replace, Edge(old, "", new, ""))]

\* 'go mod edit -replace old=new' on the go.mod gm.
GoModEditReplace(gm, old, new) ==
    [gm EXCEPT !.replace = Format(AddReplace(gm.replace, old, "", new, ""))]

\* The module that provides the package or module path ref.
ModuleOf(ref) ==
    LET M == {m \in Mods : IsPrefix(m, ref)}
    IN  CHOOSE m \in M : \A k \in M : Len(k) <= Len(m)

\* 'go get args' on the go.mod gm: the modules of the arguments are required.
GoGet(gm, args) == [gm EXCEPT !.require = @ \cup {ModuleOf(a) : a \in args}]

\* The directory a replace target names, seen from the workspace's go.mod.
TargetDir(e) ==
    IF IsAbs(e.new) THEN Clean(e.new)
    ELSE IF IsDirectoryPath(e.new) THEN Join(WorkDir, e.new)
    ELSE CacheDir(e.new)

\* The directories 'go list -m -f {{.Dir}} m' may report under the go.mod gm:
\* the target of the directive that replaces every version of m, else the
\* module cache or the target of a directive for the version in use.
LocateDirs(gm, m) ==
    LET all == {j \in 1..Len(gm.replace) : gm.replace[j].old = m /\ gm.replace[j].ver = ""}
        some == {j \in 1..Len(gm.replace) : gm.replace[j].old = m /\ gm.replace[j].ver # ""}
    IN  IF all # {} THEN {TargetDir(gm.replace[j]) : j \in all}
        ELSE {CacheDir(m)} \cup {TargetDir(gm.replace[j]) : j \in some}

(***************************************************************************)
(* The state of one call of CreateEnvironment.                              *)
(***************************************************************************)
VARIABLES
    wd,             \* the working directory of the calling process
    base,           \* the go.mod that governs wd (NoGoMod: none)
    argPaths,       \* the argument paths
    replaces,       \* the argument replaces
    pc,             \* the step of CreateEnvironment to run next
    work,           \* work: the directory made by os.MkdirTemp (<<>>: none yet)
    currentGoMod,   \* currentGoMod (<<>>: the empty string)
    origModPath,    \* origModPath (<<>>: the empty string)
    gomod,          \* the go.mod in work, parsed
    files,          \* the regular files on disk and their content
    dirs,           \* the directories on disk
    modVisited,     \* modVisited
    ri,             \* the index in replaces of the item being processed
    modFilepath,    \* modFilepath, the output of go list for the item's module
    paths,          \* paths, after the default is applied
    currentModPath, \* currentModPath
    newPaths,       \* newPaths
    pi,             \* the index i of the loop that fills newPaths
    ret,            \* the values returned (when pc = "done")
    fetched,        \* the argument lists of the 'go get' runs, in order
    located,        \* per module, the directories 'go list -m -f {{.Dir}}' reported, one per run
    copyCount,      \* per module, the runs of the tree copy (filepath.WalkDir)
    identityProbes, \* the runs of 'go list -m -f {{.Path}}'
    storage,        \* per regular file, the storage that holds its content
    now,            \* the instant time.Now() reports to the call
    earlier         \* the instants time.Now() reported to earlier calls

vars == <<wd, base, argPaths, replaces, pc, work, currentGoMod, origModPath, gomod,
          files, dirs, modVisited, ri, modFilepath, paths, currentModPath, newPaths,
          pi, ret, fetched, located, copyCount, identityProbes, storage, now, earlier>>

\* The inputs of the call, which no step changes.
inputs == <<wd, base, argPaths, replaces, now, earlier>>

\* The instants of the clock: a second, and the first or the second half of it.
Seconds == {"20250102150405", "20250102150406"}

Halves == {"first", "second"}

Instants == [sec : Seconds, half : Halves]

\* The instant s is before the instant t.
Before(s, t) ==
    \/ s.sec = "20250102150405" /\ t.sec = "20250102150406"
    \/ s.sec = t.sec /\ s.half = "first" /\ t.half = "second"

\* "uwagaki_" + t.UTC().Format("20060102150405"): the layout has no field
\* below the second.
ModuleNameAt(t) ==
    IF t.sec = "20250102150405" THEN <<"uwagaki_20250102150405">>
    ELSE <<"uwagaki_20250102150406">>

\* randomModuleName := "uwagaki_" + time.Now().UTC().Format("20060102150405")
RandomModuleName == ModuleNameAt(now)

\* replacedModDir := filepath.Join(work, "mod")
ReplacedModDir == Join(WorkDir, <<"mod">>)

NoRet == [workDir |-> <<>>, newPaths |-> <<>>, err |-> "none"]

\* return "", nil, err
ErrRet == [workDir |-> <<>>, newPaths |-> <<>>, err |-> "error"]

ArgsOk(ps, rs) ==
    /\ Len(ps) <= MaxPaths
    /\ Len(rs) <= MaxReplaces
    /\ Len(ps) + Len(rs) <= MaxArgs

\* The locals and the disk when CreateEnvironment is entered.
Entered ==
    /\ pc = "MkdirTemp"
    /\ work = <<>>
    /\ currentGoMod = <<>>
    /\ origModPath = <<>>
    /\ gomod = NoGoMod
    /\ files = OrigFiles
    /\ storage = [p \in DOMAIN OrigFiles |-> TreeStorage(p)]
    /\ dirs = OrigDirs
    /\ modVisited = {}
    /\ ri = 1
    /\ modFilepath = <<>>
    /\ paths = argPaths
    /\ currentModPath = <<>>
    /\ newPaths = <<>>
    /\ pi = 1
    /\ ret = NoRet
    /\ fetched = <<>>
    /\ located = [m \in Mods |-> <<>>]
    /\ copyCount = [m \in Mods |-> 0]
    /\ identityProbes = 0

\* The arguments and the working directory of a call.
Called ==
    /\ wd \in InsideWds \cup {OutsideWd}
    /\ base \in {GoMod(ModA, {}, br) : br \in BaseReplaces} \cup {NoGoMod}
    /\ (wd = OutsideWd) <=> (base = NoGoMod)
    /\ argPaths \in SeqsUpTo(EntryPaths, MaxPaths)
    /\ replaces \in SeqsUpTo(ReplaceItems, MaxReplaces)
    /\ ArgsOk(argPaths, replaces)

\* The first call of the process.
Init ==
    /\ Called
    /\ now = [sec |-> "20250102150405", half |-> "first"]
    /\ earlier = {}
    /\ Entered

\* Items for one file and one file below a directory, of module a and of the
\* module a/b below it.
RepeatItems ==
    {ReplaceItem(m, p, c) : m \in {ModA, ModAB}, p \in {<<"f">>, <<"b", "f">>}, c \in Contents}

\* A call in the directory of the project with several items and no paths.
InitRepeated ==
    /\ wd = ProjectDir
    /\ base = GoMod(ModA, {}, <<>>)
    /\ argPaths = <<>>
    /\ replaces \in SeqsUpTo(RepeatItems, MaxRepeated)
    /\ now = [sec |-> "20250102150405", half |-> "first"]
    /\ earlier = {}
    /\ Entered

\* A call after earlier calls, which read the clock before it does.
InitLater ==
    /\ Called
    /\ Len(argPaths) + Len(replaces) < MaxArgs
    /\ now \in Instants
    /\ earlier \in SUBSET {t \in Instants : Before(t, now)}
    /\ Entered

\* A return with an error that first removes what the call made below work.
ReturnError_RemoveAll ==
    /\ pc' = "done"
    /\ ret' = ErrRet
    /\ files' = [q \in {r \in DOMAIN files : ~IsPrefix(WorkDir, r)} |-> files[q]]
    /\ storage' = [q \in {r \in DOMAIN files : ~IsPrefix(WorkDir, r)} |-> storage[q]]
    /\ dirs' = {d \in dirs : ~IsPrefix(WorkDir, d)}
    /\ UNCHANGED <<inputs, work, currentGoMod, origModPath, gomod,
                   modVisited, ri, modFilepath, paths, currentModPath, newPaths, pi,
                   fetched, located, copyCount, identityProbes>>

\* A step fails and CreateEnvironment returns "", nil, err; what is on disk
\* stays as it is.
ReturnError ==
    /\ pc' = "done"
    /\ ret' = ErrRet
    /\ UNCHANGED <<inputs, work, currentGoMod, origModPath, gomod, files, dirs,
                   modVisited, ri, modFilepath, paths, currentModPath, newPaths, pi,
                   fetched, located, copyCount, identityProbes, storage>>

\* work, err := os.MkdirTemp("", "")
MkdirTemp ==
    /\ pc = "MkdirTemp"
    /\ \/ /\ work' = WorkDir
          /\ dirs' = dirs \cup {WorkDir}
          /\ pc' = "Probe"
          /\ UNCHANGED <<inputs, currentGoMod, origModPath, gomod, files, modVisited,
                         ri, modFilepath, paths, currentModPath, newPaths, pi, ret,
                         fetched, located, copyCount, identityProbes, storage>>
       \/ ReturnError

\* 'go list -m -f {{.GoMod}}' in the working directory; its error is ignored.
Probe ==
    /\ pc = "Probe"
    /\ \/ base # NoGoMod /\ currentGoMod' = ProjectGoMod
       \/ currentGoMod' = <<>>
    /\ pc' = IF currentGoMod' # <<>> THEN "CopyGoMod" ELSE "GoModInit"
    /\ UNCHANGED <<inputs, work, origModPath, gomod, files, dirs, modVisited, ri,
                   modFilepath, paths, currentModPath, newPaths, pi, ret, fetched,
                   located, copyCount, identityProbes, storage>>

\* The current go.mod is read, parsed, renamed, its replace paths are fixed and
\* it is written to work.
CopyGoMod ==
    /\ pc = "CopyGoMod"
    /\ \/ /\ origModPath' = base.module
          /\ gomod' = GoMod(RandomModuleName, base.require,
                            Format(FixReplacePaths(base.replace, 1, Dir(currentGoMod))))
          /\ pc' = "CopyGoSum"
          /\ UNCHANGED <<inputs, work, currentGoMod, files, dirs, modVisited, ri,
                         modFilepath, paths, currentModPath, newPaths, pi, ret, fetched,
                         located, copyCount, identityProbes, storage>>
       \/ ReturnError

\* goSum := strings.TrimSuffix(currentGoMod, ".mod") + ".sum"
GoSumOf(gm) == Append(Front(gm), "go.sum")

\* Copy go.sum if exists.
CopyGoSum ==
    /\ pc = "CopyGoSum"
    /\ \/ /\ files' = IF GoSumOf(currentGoMod) \in DOMAIN files
                      THEN WriteFiles(files, Join(work, <<"go.sum">>), files[GoSumOf(currentGoMod)])
                      ELSE files
          /\ storage' = IF GoSumOf(currentGoMod) \in DOMAIN files
                        THEN CreateStorage(storage, {Join(work, <<"go.sum">>)})
                        ELSE storage
          /\ pc' = "GoGet"
          /\ UNCHANGED <<inputs, work, currentGoMod, origModPath, gomod, dirs, modVisited,
                         ri, modFilepath, paths, currentModPath, newPaths, pi, ret,
                         fetched, located, copyCount, identityProbes>>
       \/ GoSumOf(currentGoMod) \in DOMAIN files /\ ReturnError

\* 'go mod init randomModuleName' in work.
GoModInit ==
    /\ pc = "GoModInit"
    /\ \/ /\ gomod' = GoMod(RandomModuleName, {}, <<>>)
          /\ pc' = "GoGet"
          /\ UNCHANGED <<inputs, work, currentGoMod, origModPath, files, dirs, modVisited,
                         ri, modFilepath, paths, currentModPath, newPaths, pi, ret,
                         fetched, located, copyCount, identityProbes, storage>>
       \/ ReturnError

IsNonDirPath(p) == ~IsDirectoryPath(p)

Range(s) == {s[j] : j \in 1..Len(s)}

\* A loop whose body starts at the write of the item, whatever was visited.
LoopPc_WriteFirst(j, visited) ==
    IF j > Len(replaces) THEN "Default" ELSE "MkdirAll"

\* The step after item j - 1 of replaces is done: the item j, if any.
LoopPc(j, visited) ==
    IF j > Len(replaces) THEN "Default"
    ELSE IF replaces[j].Mod \in visited THEN "MkdirAll"
    ELSE "ItemGoGet"

\* 'go get nonDirPaths...' in work, when there is a path that is no directory.
GoGetPaths ==
    /\ pc = "GoGet"
    /\ LET nonDirPaths == SelectSeq(paths, IsNonDirPath) IN
       \/ /\ gomod' = IF Len(nonDirPaths) > 0 THEN GoGet(gomod, Range(nonDirPaths)) ELSE gomod
          /\ fetched' = IF Len(nonDirPaths) > 0 THEN Append(fetched, nonDirPaths) ELSE fetched
          /\ pc' = IF origModPath # <<>> THEN "AddRequire" ELSE LoopPc(1, {})
          /\ UNCHANGED <<inputs, work, currentGoMod, origModPath, files, dirs, modVisited,
                         ri, modFilepath, paths, currentModPath, newPaths, pi, ret,
                         located, copyCount, identityProbes, storage>>
       \/ Len(nonDirPaths) > 0 /\ ReturnError

\* The go.mod in work left without the require of the current module.
AddRequire_Skip ==
    /\ pc = "AddRequire"
    /\ pc' = "EditOrig"
    /\ UNCHANGED <<inputs, work, currentGoMod, origModPath, gomod, files, dirs, modVisited,
                   ri, modFilepath, paths, currentModPath, newPaths, pi, ret,
                   fetched, located, copyCount, identityProbes, storage>>

\* The go.mod in work is rewritten with a dummy require of the current module.
AddRequire ==
    /\ pc = "AddRequire"
    /\ \/ /\ gomod' = [gomod EXCEPT !.require = @ \cup {origModPath}]
          /\ pc' = "EditOrig"
          /\ UNCHANGED <<inputs, work, currentGoMod, origModPath, files, dirs, modVisited,
                         ri, modFilepath, paths, currentModPath, newPaths, pi, ret,
                         fetched, located, copyCount, identityProbes, storage>>
       \/ ReturnError

\* 'go mod edit -replace origModPath=filepath.Dir(currentGoMod)' in work.
EditOrig ==
    /\ pc = "EditOrig"
    /\ \/ /\ gomod' = GoModEditReplace(gomod, origModPath, Dir(currentGoMod))
          /\ pc' = LoopPc(1, {})
          /\ UNCHANGED <<inputs, work, currentGoMod, origModPath, files, dirs, modVisited,
                         ri, modFilepath, paths, currentModPath, newPaths, pi, ret,
                         fetched, located, copyCount, identityProbes, storage>>
       \/ ReturnError

(***************************************************************************)
(* The loop over replaces.                                                  *)
(***************************************************************************)
\* dst of replace: filepath.Join(replacedFilesDir, filepath.FromSlash(modulePath))
ModDst(m) == Join(ReplacedModDir, m)

\* dst of the loop body:
\* filepath.Join(replacedModDir, filepath.FromSlash(r.Mod), filepath.FromSlash(r.Path))
ItemDst(r) == Clean(ReplacedModDir \o r.Mod \o r.Path)
\* The target of the directive given as the absolute directory of the copy.
ModDstRel_Absolute(m) == Join(ReplacedModDir, m)

\* dstRel of replace: "." + separator + filepath.Join("mod", modulePath)
ModDstRel(m) == <<".">> \o Join(<<"mod">>, m)

\* 'go get r.Mod' in work.
ItemGoGet ==
    /\ pc = "ItemGoGet"
    /\ \/ /\ gomod' = GoGet(gomod, {replaces[ri].Mod})
          /\ fetched' = Append(fetched, <<replaces[ri].Mod>>)
          /\ pc' = "ItemGoList"
          /\ UNCHANGED <<inputs, work, currentGoMod, origModPath, files, dirs, modVisited,
                         ri, modFilepath, paths, currentModPath, newPaths, pi, ret,
                         located, copyCount, identityProbes, storage>>
       \/ ReturnError

\* 'go list -m -f {{.Dir}} r.Mod' in work.
ItemGoList ==
    /\ pc = "ItemGoList"
    /\ \/ /\ modFilepath' \in LocateDirs(gomod, replaces[ri].Mod)
          /\ located' = [located EXCEPT ![replaces[ri].Mod] = Append(@, modFilepath')]
          /\ pc' = "Replace"
          /\ ret' = ret
       \/ /\ modFilepath' = modFilepath
          /\ located' = located
          /\ pc' = "done"
          /\ ret' = ErrRet
    /\ UNCHANGED <<inputs, work, currentGoMod, origModPath, gomod, files, dirs,
                   modVisited, ri, paths, currentModPath, newPaths, pi, fetched,
                   copyCount, identityProbes, storage>>

\* The outcome of os.Stat(dst) in replace: "file", "dir", "notexist" or
\* "error" (a regular file where a directory above dst is expected).
StatResult(fs, ds, p) ==
    IF p \in DOMAIN fs THEN "file"
    ELSE IF p \in ds THEN "dir"
    ELSE IF MkdirAllOk(fs, Dir(p)) THEN "notexist"
    ELSE "error"

\* The copy of replace ends with an error: the files S were copied before it.
CopyAborted(src, dst, S) ==
    /\ files' = CopyFiles(files, src, dst, S)
    /\ storage' = CreateStorage(storage, {dst \o RelTo(src, p) : p \in S})
    /\ dirs' = CopyDirs(dirs, src, dst, S)
    /\ pc' = "done"
    /\ ret' = ErrRet

\* replace, 'Copy files': os.Stat(dst), and the walk over the module's source
\* when dst does not exist.
ReplaceCopy ==
    /\ pc = "Replace"
    /\ LET m == replaces[ri].Mod
           dst == ModDst(m)
           st == StatResult(files, dirs, dst)
           S == WalkFiles(files, modFilepath)
       IN
       \/ /\ st \in {"file", "error"}
          /\ pc' = "done"
          /\ ret' = ErrRet
          /\ UNCHANGED <<files, dirs, copyCount, storage>>
       \/ /\ st = "dir"
          /\ pc' = "ReplaceEdit"
          /\ UNCHANGED <<files, dirs, copyCount, ret, storage>>
       \/ /\ st = "notexist"
          /\ copyCount' = [copyCount EXCEPT ![m] = @ + 1]
          /\ \/ /\ modFilepath \in dirs
                /\ CopyOk(files, dirs, modFilepath, dst, S)
                /\ files' = CopyFiles(files, modFilepath, dst, S)
                /\ storage' = CreateStorage(storage, {dst \o RelTo(modFilepath, p) : p \in S})
                /\ dirs' = CopyDirs(dirs, modFilepath, dst, S)
                /\ pc' = "ReplaceEdit"
                /\ ret' = ret
             \/ \E T \in SUBSET S :
                   /\ T # S \/ modFilepath \notin dirs
                   /\ CopyOk(files, dirs, modFilepath, dst, T)
                   /\ CopyAborted(modFilepath, dst, T)
    /\ UNCHANGED <<inputs, work, currentGoMod, origModPath, gomod, modVisited, ri,
                   modFilepath, paths, currentModPath, newPaths, pi, fetched,
                   located, identityProbes>>

\* replace, 'go mod edit -replace modulePath=dstRel' in work.
ReplaceEdit ==
    /\ pc = "ReplaceEdit"
    /\ \/ /\ gomod' = GoModEditReplace(gomod, replaces[ri].Mod, ModDstRel(replaces[ri].Mod))
          /\ pc' = "Visit"
          /\ UNCHANGED <<inputs, work, currentGoMod, origModPath, files, dirs, modVisited,
                         ri, modFilepath, paths, currentModPath, newPaths, pi, ret,
                         fetched, located, copyCount, identityProbes, storage>>
       \/ ReturnError

\* modVisited[r.Mod] = struct{}{}
Visit ==
    /\ pc = "Visit"
    /\ modVisited' = modVisited \cup {replaces[ri].Mod}
    /\ pc' = "MkdirAll"
    /\ UNCHANGED <<inputs, work, currentGoMod, origModPath, gomod, files, dirs, ri,
                   modFilepath, paths, currentModPath, newPaths, pi, ret, fetched,
                   located, copyCount, identityProbes, storage>>

\* os.MkdirAll(filepath.Dir(dst), 0755)
MkdirAll ==
    /\ pc = "MkdirAll"
    /\ \/ /\ MkdirAllOk(files, Dir(ItemDst(replaces[ri])))
          /\ dirs' = MkdirAllDirs(dirs, Dir(ItemDst(replaces[ri])))
          /\ pc' = "Remove"
          /\ UNCHANGED <<inputs, work, currentGoMod, origModPath, gomod, files,
                         modVisited, ri, modFilepath, paths, currentModPath, newPaths,
                         pi, ret, fetched, located, copyCount, identityProbes, storage>>
       \/ ReturnError

\* The write of the item without the os.Remove(dst) before it.
Remove_Skip ==
    /\ pc = "Remove"
    /\ pc' = "WriteFile"
    /\ UNCHANGED <<inputs, work, currentGoMod, origModPath, gomod, files, dirs,
                   modVisited, ri, modFilepath, paths, currentModPath, newPaths,
                   pi, ret, fetched, located, copyCount, identityProbes, storage>>

\* os.Remove(dst); an error that is os.ErrNotExist is passed over.
Remove ==
    /\ pc = "Remove"
    /\ LET dst == ItemDst(replaces[ri])
           res == RemoveResult(files, dirs, dst)
       IN
       \/ /\ res = "ok"
          /\ files' = IF dst \in DOMAIN files THEN RemoveFiles(files, dst) ELSE files
          /\ storage' = IF dst \in DOMAIN files THEN RemoveStorage(storage, dst) ELSE storage
          /\ dirs' = IF dst \in DOMAIN files THEN dirs ELSE dirs \ {dst}
          /\ pc' = "WriteFile"
          /\ UNCHANGED <<inputs, work, currentGoMod, origModPath, gomod, modVisited, ri,
                         modFilepath, paths, currentModPath, newPaths, pi, ret, fetched,
                         located, copyCount, identityProbes>>
       \/ /\ res = "notexist"
          /\ pc' = "WriteFile"
          /\ UNCHANGED <<inputs, work, currentGoMod, origModPath, gomod, files, dirs,
                         modVisited, ri, modFilepath, paths, currentModPath, newPaths,
                         pi, ret, fetched, located, copyCount, identityProbes, storage>>
       \/ res \in {"ok", "error"} /\ ReturnError

\* os.WriteFile(dst, r.Content, 0644), and the next item.
WriteFile ==
    /\ pc = "WriteFile"
    /\ \/ /\ WriteFileOk(files, dirs, ItemDst(replaces[ri]))
          /\ files' = WriteFiles(files, ItemDst(replaces[ri]), replaces[ri].Content)
          /\ storage' = CreateStorage(storage, {ItemDst(replaces[ri])})
          /\ ri' = ri + 1
          /\ pc' = LoopPc(ri + 1, modVisited)
          /\ UNCHANGED <<inputs, work, currentGoMod, origModPath, gomod, dirs, modVisited,
                         modFilepath, paths, currentModPath, newPaths, pi, ret, fetched,
                         located, copyCount, identityProbes>>
       \/ ReturnError

(***************************************************************************)
(* The resolution of the paths.                                             *)
(***************************************************************************)
\* The list of paths left as it is when it is empty.
DefaultPaths_Keep(ps) == ps

\* if len(paths) == 0 { paths = []string{"."} }
DefaultPaths(ps) == IF Len(ps) = 0 THEN << <<".">> >> ELSE ps

\* The default of paths, and which probe follows.
Default ==
    /\ pc = "Default"
    /\ paths' = DefaultPaths(paths)
    /\ pc' = IF currentGoMod # <<>> THEN "ProbePath" ELSE "Resolve"
    /\ UNCHANGED <<inputs, work, currentGoMod, origModPath, gomod, files, dirs,
                   modVisited, ri, modFilepath, currentModPath, newPaths, pi, ret,
                   fetched, located, copyCount, identityProbes, storage>>

\* 'go list -m -f {{.Path}}' in the working directory.
ProbePath ==
    /\ pc = "ProbePath"
    /\ identityProbes' = identityProbes + 1
    /\ \/ /\ currentModPath' = base.module
          /\ pc' = "Resolve"
          /\ ret' = ret
       \/ /\ currentModPath' = currentModPath
          /\ pc' = "done"
          /\ ret' = ErrRet
    /\ UNCHANGED <<inputs, work, currentGoMod, origModPath, gomod, files, dirs,
                   modVisited, ri, modFilepath, paths, newPaths, pi, fetched,
                   located, copyCount, storage>>
\* A resolution relative to the working directory, not to the directory of
\* the go.mod.
ResolvePath_RelToWd(pkg) ==
    IF ~IsDirectoryPath(pkg) THEN pkg
    ELSE IF currentGoMod = <<>> THEN Abs(wd, pkg)
    ELSE Join(currentModPath, Rel(wd, Abs(wd, pkg)))

\* A resolution that leaves a directory as it was given when there is no
\* go.mod.
ResolvePath_NoAbs(pkg) ==
    IF ~IsDirectoryPath(pkg) THEN pkg
    ELSE IF currentGoMod = <<>> THEN pkg
    ELSE Join(currentModPath, Rel(Dir(currentGoMod), Abs(wd, pkg)))

\* A resolution that joins every path, an identifier too, with the module
\* path when there is a go.mod.
ResolvePath_AlwaysJoin(pkg) ==
    IF currentGoMod = <<>> THEN (IF IsDirectoryPath(pkg) THEN Abs(wd, pkg) ELSE pkg)
    ELSE IF ~IsDirectoryPath(pkg) THEN Join(currentModPath, pkg)
    ELSE Join(currentModPath, Rel(Dir(currentGoMod), Abs(wd, pkg)))

\* The body of the loop that fills newPaths, for the path pkg.
ResolvePath(pkg) ==
    IF ~IsDirectoryPath(pkg) THEN pkg
    ELSE IF currentGoMod = <<>> THEN Abs(wd, pkg)
    ELSE Join(currentModPath, Rel(Dir(currentGoMod), Abs(wd, pkg)))

\* newPaths[i] of the loop, for i = pi.
Resolve ==
    /\ pc = "Resolve"
    /\ pi <= Len(paths)
    /\ \/ /\ newPaths' = Append(newPaths, ResolvePath(paths[pi]))
          /\ pi' = pi + 1
          /\ UNCHANGED <<inputs, pc, work, currentGoMod, origModPath, gomod, files, dirs,
                         modVisited, ri, modFilepath, paths, currentModPath, ret,
                         fetched, located, copyCount, identityProbes, storage>>
       \/ /\ IsDirectoryPath(paths[pi]) /\ ~IsAbs(paths[pi])
          /\ ReturnError

\* return work, newPaths, nil
Return ==
    /\ pc = "Resolve"
    /\ pi > Len(paths)
    /\ ret' = [workDir |-> work, newPaths |-> newPaths, err |-> "nil"]
    /\ pc' = "done"
    /\ UNCHANGED <<inputs, work, currentGoMod, origModPath, gomod, files, dirs,
                   modVisited, ri, modFilepath, paths, currentModPath, newPaths, pi,
                   fetched, located, copyCount, identityProbes, storage>>

Next ==
    \/ MkdirTemp
    \/ Probe
    \/ CopyGoMod
    \/ CopyGoSum
    \/ GoModInit
    \/ GoGetPaths
    \/ AddRequire
    \/ EditOrig
    \/ ItemGoGet
    \/ ItemGoList
    \/ ReplaceCopy
    \/ ReplaceEdit
    \/ Visit
    \/ MkdirAll
    \/ Remove
    \/ WriteFile
    \/ Default
    \/ ProbePath
    \/ Resolve
    \/ Return

Spec == Init /\ [][Next]_vars

\* A call that follows earlier calls of the process.
SpecLater == InitLater /\ [][Next]_vars

\* A call whose items repeat files.
SpecRepeated == InitRepeated /\ [][Next]_vars

(***************************************************************************)
(* Properties of CreateEnvironment.                                         *)
(***************************************************************************)
\* The call has returned without an error.
Succeeded == pc = "done" /\ ret.err = "nil"

\* The modules the override items name.
OverriddenMods == {replaces[j].Mod : j \in 1..Len(replaces)}

\* The indices of the replace directives of gm whose old module is m.
EdgesOf(gm, m) == {j \in 1..Len(gm.replace) : gm.replace[j].old = m}

\* C1: at every point of the call, every file below a directory that the
\* locate step reported for an overridden module is on disk with the content
\* it had before the call.
C1_OriginalTreeUntouched ==
    \A m \in Mods : \A j \in 1..Len(located[m]) :
        \A p \in DOMAIN OrigFiles :
            IsPrefix(located[m][j], p) => p \in DOMAIN files /\ files[p] = OrigFiles[p]

\* C2: after a successful call the locate step and the tree copy have run
\* exactly once for every module the override items name.
C2_LocateAndCopyOncePerModule ==
    Succeeded =>
        \A m \in OverriddenMods : Len(located[m]) = 1 /\ copyCount[m] = 1

\* C3: after a successful call, every override item whose (module, path) pair
\* no later item repeats has its content in the file
\* work/mod/<module>/<path>.
C3_ItemContentOnDisk ==
    Succeeded =>
        \A j \in 1..Len(replaces) :
            (~\E k \in (j + 1)..Len(replaces) :
                  replaces[k].Mod = replaces[j].Mod /\ replaces[k].Path = replaces[j].Path)
            => /\ Clean(WorkDir \o <<"mod">> \o replaces[j].Mod \o replaces[j].Path) \in DOMAIN files
               /\ files[Clean(WorkDir \o <<"mod">> \o replaces[j].Mod \o replaces[j].Path)]
                      = replaces[j].Content

\* The shortest relative path that leads from the directory dir to abs: some
\* ".." followed by an end of abs, such that dir joined with it is abs.
ShortestRel(dir, abs) ==
    LET R == {Dots(n) \o SubSeq(abs, k, Len(abs)) : n \in 0..Len(dir), k \in 1..(Len(abs) + 1)}
        G == {r \in R : Clean(dir \o r) = abs}
    IN  CHOOSE r \in G : \A q \in G : Len(r) <= Len(q)

\* What the specification asks of the path returned for the entry path p:
\* an identifier as it is; a directory as the module path joined with the
\* directory's path relative to the directory of the go.mod, or as the
\* absolute path when no go.mod was found.
ExpectedPath(p) ==
    IF p[1] \notin {".", "..", ""} THEN p
    ELSE IF currentGoMod = <<>> THEN Clean(IF p[1] = "" THEN p ELSE wd \o p)
    ELSE Clean(base.module \o ShortestRel(ProjectDir, Clean(IF p[1] = "" THEN p ELSE wd \o p)))

\* C4: with a go.mod found, the path returned for a directory entry path is
\* the module path joined with the path of the directory, made absolute
\* against the working directory, relative to the directory of the go.mod.
C4_DirPathUnderModule ==
    (Succeeded /\ currentGoMod # <<>>) =>
        \A i \in 1..Len(argPaths) :
            IsDirectoryPath(argPaths[i]) =>
                /\ i <= Len(ret.newPaths)
                /\ ret.newPaths[i] =
                       Clean(base.module \o ShortestRel(ProjectDir, Clean(wd \o argPaths[i])))

C4_Witness ==
    /\ Succeeded
    /\ currentGoMod # <<>>
    /\ wd = <<"", "srcA", "i">>
    /\ \E i \in 1..Len(argPaths) : argPaths[i] = <<".">> /\ ret.newPaths[i] = <<"a", "i">>

\* C5: with no go.mod found, the path returned for a directory entry path is
\* its absolute path, and 'go list -m -f {{.Path}}' is never run.
C5_DirPathAbsolute ==
    /\ (pc # "MkdirTemp" /\ pc # "Probe" /\ currentGoMod = <<>>) => identityProbes = 0
    /\ (Succeeded /\ currentGoMod = <<>>) =>
          \A i \in 1..Len(argPaths) :
              IsDirectoryPath(argPaths[i]) =>
                  /\ i <= Len(ret.newPaths)
                  /\ IsAbs(ret.newPaths[i])
                  /\ ret.newPaths[i] = Clean(wd \o argPaths[i])

C5_Witness ==
    /\ Succeeded
    /\ currentGoMod = <<>>
    /\ wd = OutsideWd
    /\ \E i \in 1..Len(argPaths) :
          argPaths[i] = <<"..", "sib">> /\ ret.newPaths[i] = <<"", "sib">>

\* C6: for a list of entry paths that is not empty, the list returned has the
\* length of the input, an identifier (with its @version) is returned as it
\* is at its index, and a directory is returned resolved at its index.
C6_PathsKeepLengthAndOrder ==
    (Succeeded /\ argPaths # <<>>) =>
        /\ Len(ret.newPaths) = Len(argPaths)
        /\ \A i \in 1..Len(argPaths) :
              /\ ~IsDirectoryPath(argPaths[i]) => ret.newPaths[i] = argPaths[i]
              /\ IsDirectoryPath(argPaths[i]) => ret.newPaths[i] = ExpectedPath(argPaths[i])

C6_Witness ==
    /\ Succeeded
    /\ currentGoMod # <<>>
    /\ Len(argPaths) = 2
    /\ argPaths[1] = <<".">>
    /\ argPaths[2] = <<"c", "pkg@v1">>
    /\ ret.newPaths = << <<"a">>, <<"c", "pkg@v1">> >>

\* C7: for an empty list of entry paths exactly one path is returned, the
\* resolution of ".": the module path joined with the working directory's
\* path below the directory of the go.mod, or the working directory when no
\* go.mod was found; and "." is never an argument of 'go get'.
C7_EmptyPathsDefault ==
    /\ \A j \in 1..Len(fetched) : <<".">> \notin Range(fetched[j])
    /\ (Succeeded /\ argPaths = <<>>) =>
          ret.newPaths = << IF currentGoMod # <<>>
                            THEN base.module \o RelTo(ProjectDir, wd)
                            ELSE wd >>

C7_Witness ==
    /\ Succeeded
    /\ argPaths = <<>>
    /\ currentGoMod # <<>>
    /\ wd = <<"", "srcA", "i">>
    /\ ret.newPaths = << <<"a", "i">> >>

\* The module and the target of the 'go mod edit -replace' that the step at
\* hand asks for.
ReqOld == IF pc = "EditOrig" THEN origModPath ELSE replaces[ri].Mod
ReqNew == IF pc = "EditOrig" THEN ProjectDir ELSE <<".", "mod">> \o replaces[ri].Mod

\* The replace directives of gm for modules other than m.
EdgesNotOf(gm, m) == SelectSeq(gm.replace, LAMBDA e : e.old # m)

\* C8 (as stated): at no point does the go.mod of the workspace have two
\* replace directives with the same old module.
C8_NeverTwoEdgesSameOld ==
    \A j, k \in 1..Len(gomod.replace) :
        j # k => gomod.replace[j].old # gomod.replace[k].old

\* C8 (amended): a module has exactly one replace directive from the moment it
\* is visited, and every overridden module has exactly one after success; the
\* directives copied from the go.mod of the project may name one module at
\* several versions until then. While the item at hand is for a module already
\* visited, no step changes a directive, and the write of the item puts its
\* file in place.
C8_OneEdgePerOverriddenModule ==
    /\ [](\A m \in modVisited : Cardinality(EdgesOf(gomod, m)) = 1)
    /\ [](Succeeded => \A m \in OverriddenMods : Cardinality(EdgesOf(gomod, m)) = 1)
    /\ [][(ri <= Len(replaces) /\ replaces[ri].Mod \in modVisited)
             => /\ gomod'.replace = gomod.replace
                /\ (pc = "WriteFile" /\ pc' # "done")
                      => /\ ItemDst(replaces[ri]) \in DOMAIN files'
                         /\ files'[ItemDst(replaces[ri])] = replaces[ri].Content]_vars

C8_Witness ==
    /\ pc = "WriteFile"
    /\ ri = 2
    /\ replaces[1].Mod = ModC
    /\ replaces[2].Mod = ModC
    /\ base # NoGoMod
    /\ Cardinality(EdgesOf(base, ModC)) = 2
    /\ Cardinality(EdgesOf(gomod, ModC)) = 1

\* C9: after success the replace directive of every overridden module points
\* at ./mod/<module> below the working directory, with no version: for the
\* module of the project too, whose directive first pointed at the project
\* directory, and for a module that the copied go.mod already replaced.
C9_EdgeTargetsWorkspaceCopy ==
    Succeeded =>
        \A m \in OverriddenMods :
            /\ EdgesOf(gomod, m) # {}
            /\ \A j \in EdgesOf(gomod, m) :
                  gomod.replace[j] = Edge(m, "", <<".", "mod">> \o m, "")

C9_Witness ==
    /\ Succeeded
    /\ origModPath = ModA
    /\ ModA \in OverriddenMods
    /\ EdgesOf(base, ModA) # {}
    /\ \E j \in 1..Len(gomod.replace) :
          gomod.replace[j] = Edge(ModA, "", <<".", "mod", "a">>, "")

\* C10 (as stated): a request adds at most one replace directive for a
\* module; a request for a module whose directive has the same target changes
\* nothing; a request for a module whose directive has another target fails.
C10_ConflictingRedirectFails ==
    [][(pc \in {"EditOrig", "ReplaceEdit"})
         => /\ Cardinality(EdgesOf(gomod', ReqOld)) <= Cardinality(EdgesOf(gomod, ReqOld)) + 1
            /\ (\E j \in EdgesOf(gomod, ReqOld) : gomod.replace[j] = Edge(ReqOld, "", ReqNew, ""))
                  => gomod' = gomod
            /\ (\E j \in EdgesOf(gomod, ReqOld) : gomod.replace[j].new # ReqNew)
                  => (pc' = "done" /\ ret'.err = "error")]_vars

\* C10 (amended): a request that does not fail leaves the module with exactly
\* one replace directive, the one asked for, and the directives of the other
\* modules as they were; when that directive was the only one the module had,
\* the go.mod is unchanged; a directive with another target is replaced, the
\* request does not fail because of it.
C10_RedirectReplacesExisting ==
    [][(pc \in {"EditOrig", "ReplaceEdit"} /\ pc' # "done")
         => /\ Cardinality(EdgesOf(gomod', ReqOld)) = 1
            /\ \A j \in EdgesOf(gomod', ReqOld) :
                  gomod'.replace[j] = Edge(ReqOld, "", ReqNew, "")
            /\ EdgesNotOf(gomod', ReqOld) = EdgesNotOf(gomod, ReqOld)
            /\ gomod'.module = gomod.module
            /\ gomod'.require = gomod.require
            /\ (/\ Cardinality(EdgesOf(gomod, ReqOld)) = 1
                /\ \A j \in EdgesOf(gomod, ReqOld) :
                      gomod.replace[j] = Edge(ReqOld, "", ReqNew, ""))
                  => gomod' = gomod]_vars

C10_Witness ==
    /\ pc = "Visit"
    /\ origModPath = ModA
    /\ replaces[ri].Mod = ModA
    /\ EdgesOf(base, ModA) = {}
    /\ Cardinality(EdgesOf(gomod, ModA)) = 1
    /\ \E j \in EdgesOf(gomod, ModA) : gomod.replace[j].new = <<".", "mod", "a">>

\* The module names that earlier calls wrote into their go.mod.
EarlierNames == {ModuleNameAt(t) : t \in earlier}

\* C11: the module name in the go.mod of the workspace differs from the name
\* in the go.mod it was copied from, from the path of every module of the
\* build, and from the name every earlier call gave its workspace.
C11_FreshModuleName ==
    (gomod # NoGoMod) =>
        /\ gomod.module # base.module
        /\ gomod.module \notin Mods
        /\ gomod.module \notin EarlierNames

\* C12: once os.MkdirTemp has made the directory work, the call returns work
\* as workDir, whether it ends with an error or not.
C12_WorkDirReturnedOnEveryOutcome ==
    (pc = "done" /\ work # <<>>) => ret.workDir = work

\* C13: a step is taken only while the call has not returned; a step that
\* ends the call with an error leaves the go.mod of the workspace, every file
\* and every directory that was on disk, and the record of the commands run
\* as they were, so nothing is run again or run after it; 'go list -m -f
\* {{.GoMod}}' is the one step whose failure does not end the call.
C13_FirstFailureEndsCall ==
    [][/\ pc # "done"
       /\ (pc = "Probe") => pc' # "done"
       /\ (pc' = "done" /\ ret'.err = "error")
             => /\ gomod' = gomod
                /\ \A q \in DOMAIN files : q \in DOMAIN files' /\ files'[q] = files[q]
                /\ dirs \subseteq dirs'
                /\ fetched' = fetched
                /\ located' = located
                /\ modVisited' = modVisited
                /\ newPaths' = newPaths
                /\ ri' = ri]_vars

C13_Witness ==
    /\ pc = "done"
    /\ ret.err = "error"
    /\ ri = 2
    /\ copyCount[ModC] = 1
    /\ gomod.module = RandomModuleName
    /\ EdgesOf(gomod, ModC) # {}
    /\ <<"", "w", "mod", "c", "f">> \in DOMAIN files
    /\ files[<<"", "w", "mod", "c", "f">>] = "X"

\* C14: when the go.mod has been copied into the workspace, it has as many
\* replace directives as the original, in the same order; a directive whose
\* target is a relative directory has a target relative to the workspace that
\* names the directory the original named; every other directive is as it
\* was.
C14_ReplacePathsReanchored ==
    (pc = "CopyGoSum") =>
        /\ Len(gomod.replace) = Len(base.replace)
        /\ \A j \in 1..Len(base.replace) :
              LET e == base.replace[j]
                  g == gomod.replace[j]
              IN  IF IsDirectoryPath(e.new) /\ ~IsAbs(e.new)
                  THEN /\ g.old = e.old /\ g.ver = e.ver /\ g.nver = e.nver
                       /\ IsDirectoryPath(g.new)
                       /\ ~IsAbs(g.new)
                       /\ Clean(WorkDir \o g.new) = Clean(ProjectDir \o e.new)
                  ELSE g = e

\* The steps of the loop over replaces and of the resolution of the paths.
AfterManifest ==
    {"ItemGoGet", "ItemGoList", "Replace", "ReplaceEdit", "Visit", "MkdirAll", "Remove",
     "WriteFile", "Default", "ProbePath", "Resolve"}

\* C15: when a go.mod was copied, then from the first override item on and
\* after success the go.mod of the workspace requires the original module and
\* has one replace directive for it, whose target is the directory of the
\* original go.mod until the module itself is overridden.
C15_OriginalModuleResolvable ==
    (origModPath # <<>> /\ (pc \in AfterManifest \/ Succeeded)) =>
        /\ origModPath \in gomod.require
        /\ Cardinality(EdgesOf(gomod, origModPath)) = 1
        /\ \A j \in EdgesOf(gomod, origModPath) :
              gomod.replace[j].new =
                  IF \/ origModPath \in modVisited
                     \/ (pc = "Visit" /\ replaces[ri].Mod = origModPath)
                  THEN <<".", "mod">> \o origModPath
                  ELSE Front(ProjectGoMod)

C15_Witness ==
    /\ Succeeded
    /\ origModPath = ModA
    /\ OverriddenMods = {ModC}
    /\ ModA \in gomod.require
    /\ \E j \in 1..Len(gomod.replace) : gomod.replace[j] = Edge(ModA, "", <<"", "srcA">>, "")

\* The file of the item r is below the directory of the copy of its module.
InsideTree(r) == IsPrefix(ModDst(r.Mod), ItemDst(r)) /\ ItemDst(r) # ModDst(r.Mod)

\* C16: the file of every item that has been written is below the directory
\* of the copy of the item's module; a call with an item whose path leaves
\* that directory does not succeed; no file outside the workspace is made,
\* removed or changed.
C16_WritesStayInsideTree ==
    /\ \A j \in 1..(ri - 1) : InsideTree(replaces[j])
    /\ Succeeded => \A j \in 1..Len(replaces) : InsideTree(replaces[j])
    /\ \A q \in DOMAIN files \cup DOMAIN OrigFiles :
          ~IsPrefix(WorkDir, q) =>
              /\ q \in DOMAIN files
              /\ q \in DOMAIN OrigFiles
              /\ files[q] = OrigFiles[q]

\* The module of the item being processed has been located, the directory of
\* its copy is on disk, and it is not yet visited.
Materialized ==
    /\ located[replaces[ri].Mod] # <<>>
    /\ ModDst(replaces[ri].Mod) \in dirs
    /\ replaces[ri].Mod \notin modVisited

C18_RemoveBeforeWrite ==
    [][/\ (pc' = "WriteFile") => (pc = "Remove" /\ ri' = ri)
       /\ (pc = "Remove" /\ pc' # "done")
             => /\ ItemDst(replaces[ri]) \notin DOMAIN files'
                /\ ItemDst(replaces[ri]) \notin dirs'
                /\ (ItemDst(replaces[ri]) \notin DOMAIN files \cup dirs)
                      => (files' = files /\ dirs' = dirs)
       /\ (/\ pc = "Remove"
           /\ ItemDst(replaces[ri]) \in dirs
           /\ \E q \in DOMAIN files : IsPrefix(ItemDst(replaces[ri]), q))
             => (pc' = "done" /\ ret'.err = "error" /\ files' = files)
       /\ (pc = "WriteFile" /\ pc' # "done")
             => /\ ItemDst(replaces[ri]) \notin DOMAIN files
                /\ ItemDst(replaces[ri]) \in DOMAIN files'
                /\ \A q \in DOMAIN OrigFiles :
                      storage'[ItemDst(replaces[ri])] # TreeStorage(q)
                /\ \A q \in DOMAIN files :
                      storage'[ItemDst(replaces[ri])] # storage[q]]_vars

C18_Witness ==
    /\ pc = "WriteFile"
    /\ ri = 1
    /\ replaces[1].Mod = ModA
    /\ replaces[1].Path = <<"f">>
    /\ copyCount[ModA] = 1
    /\ <<"", "w", "mod", "a", "b", "f">> \in DOMAIN files
    /\ <<"", "w", "mod", "a", "f">> \notin DOMAIN files

\* C19: in replace, when the directory of the copy of the module is a regular
\* file, the call ends with an error, nothing is copied and the go.mod is not
\* edited; when it is a directory, nothing is copied, and the module is one
\* whose tree an earlier item has already copied.
C19_ExistingDestination ==
    [][(pc = "Replace")
         => /\ (ModDst(replaces[ri].Mod) \in DOMAIN files)
                  => /\ pc' = "done" /\ ret'.err = "error"
                     /\ files' = files /\ dirs' = dirs
                     /\ copyCount' = copyCount
                     /\ gomod' = gomod
            /\ (ModDst(replaces[ri].Mod) \in dirs)
                  => /\ files' = files /\ dirs' = dirs
                     /\ copyCount' = copyCount
                     /\ copyCount[replaces[ri].Mod] > 0]_vars

\* The files that the items of module m name.
ItemTargets(m) == {ItemDst(replaces[j]) : j \in {k \in 1..Len(replaces) : replaces[k].Mod = m}}

\* The place in the copy of module m of the file p of its source tree src.
CopyOf(m, src, p) == ModDst(m) \o RelTo(src, p)

\* C20: after a successful call, for every overridden module, every file of
\* the tree it was located at that is not below the top-level .git and is not
\* the file of an item of the module is in the copy with the content of the
\* source, and the copy holds no file besides these and the files of the
\* items of the module.
C20_CopyIsSourcePlusOverrides ==
    Succeeded =>
        \A m \in OverriddenMods :
            LET src == located[m][1]
                S == WalkFiles(OrigFiles, src)
            IN  /\ \A p \in S :
                      CopyOf(m, src, p) \notin ItemTargets(m)
                          => /\ CopyOf(m, src, p) \in DOMAIN files
                             /\ files[CopyOf(m, src, p)] = OrigFiles[p]
                /\ \A q \in DOMAIN files :
                      (IsPrefix(ModDst(m), q) /\ q \notin ItemTargets(m))
                          => \E p \in S : q = CopyOf(m, src, p)

\* C21: with a go.mod found, the path returned for a directory entry path
\* starts with the path of the module of that go.mod, also when the directory
\* is outside the directory of the go.mod.
C21_DirPathInsideOwningModule ==
    (Succeeded /\ currentGoMod # <<>>) =>
        \A i \in 1..Len(argPaths) :
            IsDirectoryPath(argPaths[i]) =>
                /\ i <= Len(ret.newPaths)
                /\ IsPrefix(base.module, ret.newPaths[i])

\* The last item of the list for the module and path of item j.
LastFor(j) ==
    CHOOSE k \in j..Len(replaces) :
        /\ replaces[k].Mod = replaces[j].Mod /\ replaces[k].Path = replaces[j].Path
        /\ \A l \in (k + 1)..Len(replaces) :
              ~(replaces[l].Mod = replaces[j].Mod /\ replaces[l].Path = replaces[j].Path)

\* The last item of the list whose file is the file of item j.
LastAt(j) ==
    CHOOSE k \in j..Len(replaces) :
        /\ ItemDst(replaces[k]) = ItemDst(replaces[j])
        /\ \A l \in (k + 1)..Len(replaces) : ItemDst(replaces[l]) # ItemDst(replaces[j])

\* Another item of the list has the module and the path of item j.
Repeated(j) ==
    \E k \in 1..Len(replaces) :
        k # j /\ replaces[k].Mod = replaces[j].Mod /\ replaces[k].Path = replaces[j].Path

\* C22: after a successful call, the file of an item whose module and path
\* other items of the list repeat holds the content of the last item of the
\* list for that module and path; and the file of every item holds the
\* content of the last item of the list that names that file, whatever the
\* earlier items and the source tree hold.
C22_LastItemWins ==
    Succeeded =>
        \A j \in 1..Len(replaces) :
            /\ ItemDst(replaces[j]) \in DOMAIN files
            /\ Repeated(j) => files[ItemDst(replaces[j])] = replaces[LastFor(j)].Content
            /\ files[ItemDst(replaces[j])] = replaces[LastAt(j)].Content
====
